---- MODULE Spec2Model ----
(***************************************************************************)
(* rlite: a single-file record store.  Fixed-width row codec, a page cache *)
(* (Pager) over one backing file, a Table that maps row indices to page    *)
(* byte ranges, and insert / select on top of them.                        *)
(*                                                                         *)
(* Byte buffers are strings of two lowercase hex digits per byte; the      *)
(* code's 0-based byte offset k is characters 2k+1..2k+2 here.  A u32 is   *)
(* kept as its two 16-bit halves                                           *)
(* [hi |-> h, lo |-> l] (value h * 65536 + l), since TLC's                 *)
(* integers are 32-bit signed and cannot hold 2^32 - 1.                    *)
(***************************************************************************)
EXTENDS Integers, Sequences, FiniteSets, TLC

\* ------------------------------------------------------------ constants
COLUMN_USERNAME_SIZE == 32
COLUMN_EMAIL_SIZE == 255
ID_SIZE == 4
USERNAME_SIZE == 32
EMAIL_SIZE == 255
ID_OFFSET == 0
USERNAME_OFFSET == ID_OFFSET + ID_SIZE
EMAIL_OFFSET == USERNAME_OFFSET + USERNAME_SIZE
ROW_SIZE == ID_SIZE + USERNAME_SIZE + EMAIL_SIZE
PAGE_SIZE == 4096
TABLE_MAX_PAGES == 100
ROWS_PER_PAGE == PAGE_SIZE \div ROW_SIZE
TABLE_MAX_ROWS == ROWS_PER_PAGE * TABLE_MAX_PAGES

\* ------------------------------------------------------------ byte buffers
\* A byte buffer ([u8; N], &[u8]) is the string of its bytes, two lower-case
\* hexadecimal digits per byte: [1u8, 255u8] is "01ff".  All buffer
\* operations below are stated on byte offsets.
Max(a, b) == IF a > b THEN a ELSE b

HexDigit ==
    << "0", "1", "2", "3", "4", "5", "6", "7",
       "8", "9", "a", "b", "c", "d", "e", "f" >>

\* the buffer holding the one byte b
Hex(b) == HexDigit[(b \div 16) + 1] \o HexDigit[(b % 16) + 1]

DigitVal(c) == CHOOSE d \in 0..15 : HexDigit[d + 1] = c

\* buf.len()
BLen(buf) == Len(buf) \div 2

\* buf[k] as a number
ByteAt(buf, k) ==
    16 * DigitVal(SubSeq(buf, 2 * k + 1, 2 * k + 1))
       + DigitVal(SubSeq(buf, 2 * k + 2, 2 * k + 2))

\* the buffer of the bytes listed in the sequence s
RECURSIVE Bytes(_)
Bytes(s) ==
    IF Len(s) = 0 THEN ""
    ELSE IF Len(s) = 1 THEN Hex(s[1])
    ELSE LET half == Len(s) \div 2
         IN  Bytes(SubSeq(s, 1, half)) \o Bytes(SubSeq(s, half + 1, Len(s)))

\* [0u8; n]
RECURSIVE Zeros(_)
Zeros(n) ==
    IF n = 0 THEN ""
    ELSE IF n % 2 = 1 THEN "00" \o Zeros(n - 1)
    ELSE LET half == Zeros(n \div 2) IN half \o half

\* &buf[from..to]
Slice(buf, from, to) == SubSeq(buf, 2 * from + 1, 2 * to)

\* buf[from..from + src.len()].copy_from_slice(src)
CopyFromSlice(buf, from, src) ==
    SubSeq(buf, 1, 2 * from) \o src
        \o SubSeq(buf, 2 * from + Len(src) + 1, Len(buf))

\* ------------------------------------------------------------ row codec
\* to_le_bytes with the bytes in big-endian order
to_be_bytes(id) ==
    Hex(id.hi \div 256) \o Hex(id.hi % 256)
        \o Hex(id.lo \div 256) \o Hex(id.lo % 256)

\* u32::to_le_bytes
to_le_bytes(id) ==
    Hex(id.lo % 256) \o Hex(id.lo \div 256)
        \o Hex(id.hi % 256) \o Hex(id.hi \div 256)

\* from_le_bytes reading the bytes in big-endian order
from_be_bytes(b) ==
    [hi |-> ByteAt(b, 1) + 256 * ByteAt(b, 0),
     lo |-> ByteAt(b, 3) + 256 * ByteAt(b, 2)]

\* u32::from_le_bytes
from_le_bytes(b) ==
    [hi |-> ByteAt(b, 2) + 256 * ByteAt(b, 3),
     lo |-> ByteAt(b, 0) + 256 * ByteAt(b, 1)]

\* Row::serialize
serialize(row) ==
    LET bytes0 == Zeros(ROW_SIZE)
        bytes1 == CopyFromSlice(bytes0, ID_OFFSET, to_le_bytes(row.id))
        bytes2 == CopyFromSlice(bytes1, USERNAME_OFFSET, row.username)
        bytes3 == CopyFromSlice(bytes2, EMAIL_OFFSET, row.email)
    IN  bytes3

\* Row::deserialize
deserialize(bytes) ==
    [id       |-> from_le_bytes(Slice(bytes, ID_OFFSET, ID_OFFSET + ID_SIZE)),
     username |-> Slice(bytes, USERNAME_OFFSET, USERNAME_OFFSET + USERNAME_SIZE),
     email    |-> Slice(bytes, EMAIL_OFFSET, EMAIL_OFFSET + EMAIL_SIZE)]

\* ------------------------------------------------------------ backing file
\* The file is kept as its consecutive PAGE_SIZE-byte blocks; every block but
\* the last is full and the last is non-empty, so the file's bytes are the
\* blocks' concatenation and byte k (0-based) is byte k % PAGE_SIZE of block
\* k / PAGE_SIZE.
FileLen(f) ==
    IF Len(f) = 0 THEN 0 ELSE (Len(f) - 1) * PAGE_SIZE + BLen(f[Len(f)])

\* the read yielding nothing unless the file holds the whole page
SeekRead_whole(f, page_num, page) ==
    IF page_num < Len(f) /\ BLen(f[page_num + 1]) = BLen(page)
    THEN CopyFromSlice(page, 0, f[page_num + 1])
    ELSE page

\* file.seek(SeekFrom::Start(page_num * PAGE_SIZE)); file.read(&mut page):
\* the bytes the file holds from that offset, at most page.len() of them,
\* copied over the start of the buffer.
SeekRead(f, page_num, page) ==
    IF page_num < Len(f)
    THEN CopyFromSlice(page, 0, f[page_num + 1])
    ELSE page

\* file.seek(SeekFrom::Start(page_num * PAGE_SIZE)); file.write_all(data):
\* a write past the end of the file leaves a zero-filled gap.
SeekWrite(f, page_num, data) ==
    IF Len(data) = 0 THEN f ELSE
    [b \in 1..Max(Len(f), page_num + 1) |->
        IF b = page_num + 1
        THEN IF b <= Len(f)
             THEN data \o SubSeq(f[b], Len(data) + 1, Len(f[b]))
             ELSE data
        ELSE IF b <= Len(f)
             THEN IF b = Len(f) /\ b < page_num + 1
                  THEN CopyFromSlice(Zeros(PAGE_SIZE), 0, f[b])
                  ELSE f[b]
             ELSE Zeros(PAGE_SIZE)]

\* ------------------------------------------------------------ Pager
None == "None"

\* pages: Box::new(std::array::from_fn(|_| None))
NoPages == [p \in 0..(TABLE_MAX_PAGES - 1) |-> None]

\* Pager::get_page reading the page from the file on every call
get_page_reread(pg, f, fl, page_num) ==
    IF page_num > TABLE_MAX_PAGES
    THEN [res |-> "FetchOutOfBounds", pages |-> pg]
    ELSE IF page_num \notin DOMAIN pg
    THEN [res |-> "panic", pages |-> pg]
    ELSE LET page == Zeros(PAGE_SIZE)
             num_pages == (fl + PAGE_SIZE - 1) \div PAGE_SIZE
             loaded == IF page_num <= num_pages
                       THEN SeekRead(f, page_num, page)
                       ELSE page
         IN  [res |-> "Ok", pages |-> [pg EXCEPT ![page_num] = loaded]]

\* Pager::get_page.  Indexing the page array outside 0..TABLE_MAX_PAGES-1
\* is a panic (Rust's bounds check).
get_page(pg, f, fl, page_num) ==
    IF page_num > TABLE_MAX_PAGES
    THEN [res |-> "FetchOutOfBounds", pages |-> pg]
    ELSE IF page_num \notin DOMAIN pg
    THEN [res |-> "panic", pages |-> pg]
    ELSE IF pg[page_num] = None
    THEN LET page == Zeros(PAGE_SIZE)
             num_pages == (fl + PAGE_SIZE - 1) \div PAGE_SIZE
             loaded == IF page_num <= num_pages
                       THEN SeekRead(f, page_num, page)
                       ELSE page
         IN  [res |-> "Ok", pages |-> [pg EXCEPT ![page_num] = loaded]]
    ELSE [res |-> "Ok", pages |-> pg]

\* Pager::flush
flush(f, pg, page_num, size) ==
    IF pg[page_num] # None
    THEN SeekWrite(f, page_num, Slice(pg[page_num], 0, size))
    ELSE f

\* Pager::flush, the write it issues: appended to the log w of the writes
\* made so far (page, file offset, number of bytes)
flush_log(w, pg, page_num, size) ==
    IF pg[page_num] # None
    THEN Append(w, [page   |-> page_num,
                    offset |-> page_num * PAGE_SIZE,
                    size   |-> size])
    ELSE w

\* ------------------------------------------------------------ Table
\* Table::new: num_rows from the file length seen by Pager::new
TableRows(fl) == fl \div ROW_SIZE

\* the addressing with the slots of a page laid one byte further apart
slot_range_stride(row_num) ==
    LET page_num == row_num \div ROWS_PER_PAGE
        row_offset == row_num % ROWS_PER_PAGE
        byte_offset == row_offset * (ROW_SIZE + 1)
    IN  [page |-> page_num, from |-> byte_offset, to |-> byte_offset + ROW_SIZE]

\* the addressing with the rows per page rounded up instead of down
slot_range_ceil(row_num) ==
    LET page_num == row_num \div (ROWS_PER_PAGE + 1)
        row_offset == row_num % (ROWS_PER_PAGE + 1)
        byte_offset == row_offset * ROW_SIZE
    IN  [page |-> page_num, from |-> byte_offset, to |-> byte_offset + ROW_SIZE]

\* Table::row_slot, its arithmetic: the page number of a row and the range
\* byte_offset..byte_offset + ROW_SIZE of the row inside that page
slot_range(row_num) ==
    LET page_num == row_num \div ROWS_PER_PAGE
        row_offset == row_num % ROWS_PER_PAGE
        byte_offset == row_offset * ROW_SIZE
    IN  [page |-> page_num, from |-> byte_offset, to |-> byte_offset + ROW_SIZE]

\* Table::row_slot: get_page(page_num).unwrap(), then the row's range.
\* via is what get_page came to: "Ok", the error value that unwrap() turns
\* into a panic, or "panic" when get_page itself panicked.
row_slot(pg, f, fl, row_num) ==
    LET range == slot_range(row_num)
        got == get_page(pg, f, fl, range.page)
    IN  [res   |-> IF got.res = "Ok" THEN "Ok" ELSE "panic",
         via   |-> got.res,
         pages |-> got.pages,
         page  |-> range.page,
         from  |-> range.from,
         to    |-> range.to]

\* impl Drop for Table, first loop: the iterations lo..hi-1 of
\* for i in 0..num_full_pages, in order (the range is halved rather than
\* peeled one by one to keep the evaluation shallow); d is the file, the
\* writes made so far and whether an iteration panicked
RECURSIVE drop_full(_, _, _, _)
drop_full(d, pg, lo, hi) ==
    IF d.panic \/ lo >= hi
    THEN d
    ELSE IF hi - lo = 1
    THEN IF lo \notin DOMAIN pg
         THEN [file |-> d.file, panic |-> TRUE, writes |-> d.writes]
         ELSE IF pg[lo] = None
         THEN d
         ELSE [file   |-> flush(d.file, pg, lo, PAGE_SIZE),
               panic  |-> FALSE,
               writes |-> flush_log(d.writes, pg, lo, PAGE_SIZE)]
    ELSE LET mid == lo + ((hi - lo) \div 2)
         IN  drop_full(drop_full(d, pg, lo, mid), pg, mid, hi)

\* drop_partial flushing the partial page in full
drop_partial_whole(d, pg, rows) ==
    LET num_full_pages == rows \div ROWS_PER_PAGE
        num_aditional_rows == rows % ROWS_PER_PAGE
    IN  IF num_aditional_rows > 0
        THEN IF num_full_pages \notin DOMAIN pg
             THEN [file |-> d.file, panic |-> TRUE, writes |-> d.writes]
             ELSE [file   |-> flush(d.file, pg, num_full_pages, PAGE_SIZE),
                   panic  |-> FALSE,
                   writes |-> flush_log(d.writes, pg, num_full_pages,
                                        PAGE_SIZE)]
        ELSE d

\* impl Drop for Table, the partial page
drop_partial(d, pg, rows) ==
    LET num_full_pages == rows \div ROWS_PER_PAGE
        num_aditional_rows == rows % ROWS_PER_PAGE
    IN  IF num_aditional_rows > 0
        THEN IF num_full_pages \notin DOMAIN pg
             THEN [file |-> d.file, panic |-> TRUE, writes |-> d.writes]
             ELSE [file   |-> flush(d.file, pg, num_full_pages,
                                    num_aditional_rows * ROW_SIZE),
                   panic  |-> FALSE,
                   writes |-> flush_log(d.writes, pg, num_full_pages,
                                        num_aditional_rows * ROW_SIZE)]
        ELSE d

\* impl Drop for Table with the first loop running one page further
table_drop_over(f, pg, rows) ==
    LET full == drop_full([file |-> f, panic |-> FALSE, writes |-> << >>],
                          pg, 0, (rows \div ROWS_PER_PAGE) + 1)
    IN  IF full.panic THEN full ELSE drop_partial(full, pg, rows)

\* impl Drop for Table with the last loop flushing what it clears
table_drop_rest(f, pg, rows) ==
    LET full == drop_full([file |-> f, panic |-> FALSE, writes |-> << >>],
                          pg, 0, rows \div ROWS_PER_PAGE)
        part == IF full.panic THEN full ELSE drop_partial(full, pg, rows)
    IN  IF part.panic THEN part
        ELSE drop_full(part, pg, (rows + ROWS_PER_PAGE - 1) \div ROWS_PER_PAGE,
                       TABLE_MAX_PAGES)

\* impl Drop for Table: the file it leaves, whether it panicked, and the
\* writes it made, in order
table_drop(f, pg, rows) ==
    LET full == drop_full([file |-> f, panic |-> FALSE, writes |-> << >>],
                          pg, 0, rows \div ROWS_PER_PAGE)
    IN  IF full.panic THEN full ELSE drop_partial(full, pg, rows)

\* ------------------------------------------------------------ statements
\* execute_insert with the capacity test off by one (> for >=)
execute_insert_late(pg, f, fl, rows, row) ==
    IF rows > TABLE_MAX_ROWS
    THEN [res |-> "TableFull", pages |-> pg, num_rows |-> rows]
    ELSE LET slot == row_slot(pg, f, fl, rows)
         IN  IF slot.res # "Ok"
             THEN [res |-> "panic", pages |-> slot.pages, num_rows |-> rows]
             ELSE [res      |-> "Ok",
                   pages    |-> [slot.pages EXCEPT ![slot.page] =
                                   CopyFromSlice(@, slot.from, serialize(row))],
                   num_rows |-> rows + 1]

\* execute_insert writing the record into the slot after the end-of-table one
execute_insert_shift(pg, f, fl, rows, row) ==
    IF rows >= TABLE_MAX_ROWS
    THEN [res |-> "TableFull", pages |-> pg, num_rows |-> rows]
    ELSE LET slot == row_slot(pg, f, fl, rows + 1)
         IN  IF slot.res # "Ok"
             THEN [res |-> "panic", pages |-> slot.pages, num_rows |-> rows]
             ELSE [res      |-> "Ok",
                   pages    |-> [slot.pages EXCEPT ![slot.page] =
                                   CopyFromSlice(@, slot.from, serialize(row))],
                   num_rows |-> rows + 1]

\* execute_insert
execute_insert(pg, f, fl, rows, row) ==
    IF rows >= TABLE_MAX_ROWS
    THEN [res |-> "TableFull", pages |-> pg, num_rows |-> rows]
    ELSE LET slot == row_slot(pg, f, fl, rows)
         IN  IF slot.res # "Ok"
             THEN [res |-> "panic", pages |-> slot.pages, num_rows |-> rows]
             ELSE [res      |-> "Ok",
                   pages    |-> [slot.pages EXCEPT ![slot.page] =
                                   CopyFromSlice(@, slot.from, serialize(row))],
                   num_rows |-> rows + 1]

\* execute_select: the iterations lo..hi-1 of for i in 0..table.num_rows,
\* each deserializing and printing row i, in order (the range is halved
\* rather than peeled one by one to keep the evaluation shallow)
RECURSIVE select_rows(_, _, _, _, _)
select_rows(st, f, fl, lo, hi) ==
    IF st.res # "Ok" \/ lo >= hi
    THEN st
    ELSE IF hi - lo = 1
    THEN LET slot == row_slot(st.pages, f, fl, lo)
         IN  IF slot.res # "Ok"
             THEN [res |-> "panic", pages |-> slot.pages, out |-> st.out]
             ELSE [res   |-> "Ok",
                   pages |-> slot.pages,
                   out   |-> Append(st.out,
                                deserialize(Slice(slot.pages[slot.page],
                                                  slot.from, slot.to)))]
    ELSE LET mid == lo + ((hi - lo) \div 2)
         IN  select_rows(select_rows(st, f, fl, lo, mid), f, fl, mid, hi)

\* execute_select with the loop starting at row 1
execute_select_skip(pg, f, fl, rows) ==
    select_rows([res |-> "Ok", pages |-> pg, out |-> << >>], f, fl, 1, rows)

execute_select(pg, f, fl, rows) ==
    select_rows([res |-> "Ok", pages |-> pg, out |-> << >>], f, fl, 0, rows)

\* ------------------------------------------------------------ inputs
\* bytes[..s.len()].copy_from_slice(s.as_bytes()) on a zeroed buffer
Padded(s, size) == CopyFromSlice(Zeros(size), 0, Bytes(s))

U32(h, l) == [hi |-> h, lo |-> l]

Row(id, username, email) ==
    [id       |-> id,
     username |-> Padded(username, USERNAME_SIZE),
     email    |-> Padded(email, EMAIL_SIZE)]

\* The records the sessions insert: ids across the u32 range, empty, short
\* and full-width text, bytes 0 and 255.
SampleRows ==
    << Row(U32(0, 1), <<97, 108, 105, 99, 101>>,
           <<97, 108, 105, 99, 101, 64, 120, 46, 99, 111, 109>>),
       Row(U32(0, 2), <<98, 111, 98>>, <<98, 111, 98, 64, 120, 46, 99, 111, 109>>),
       Row(U32(65535, 65535), [k \in 1..COLUMN_USERNAME_SIZE |-> 64 + k],
           [k \in 1..COLUMN_EMAIL_SIZE |-> 256 - k]),
       Row(U32(258, 772), << >>, << >>),
       Row(U32(32768, 0), <<120>>, <<255, 0, 121>>) >>

\* The record offered as the n-th row of the file
RowAt(n) == SampleRows[(n % Len(SampleRows)) + 1]

\* ------------------------------------------------------------ input lines
\* An input line (&str) is the sequence of its bytes; the lines are ASCII.
\* The characters of the literals below, by code: digits from 48, capital
\* letters from 65, small letters from 97
AsciiDigits == "0123456789"

AsciiUpper == "ABCDEFGHIJKLMNOPQRSTUVWXYZ"

AsciiLower == "abcdefghijklmnopqrstuvwxyz"

\* the place of the one-character string c in the string table, 0 if none
Place(table, c) ==
    IF \E k \in 1..Len(table) : SubSeq(table, k, k) = c
    THEN CHOOSE k \in 1..Len(table) : SubSeq(table, k, k) = c
    ELSE 0

\* the byte of the one-character string c
CharCode(c) ==
    IF c = " " THEN 32
    ELSE IF c = "+" THEN 43
    ELSE IF c = "-" THEN 45
    ELSE IF c = "." THEN 46
    ELSE IF c = "@" THEN 64
    ELSE IF Place(AsciiDigits, c) > 0 THEN 47 + Place(AsciiDigits, c)
    ELSE IF Place(AsciiUpper, c) > 0 THEN 64 + Place(AsciiUpper, c)
    ELSE 96 + Place(AsciiLower, c)

\* str::as_bytes of a literal
AsBytes(str) == [k \in 1..Len(str) |-> CharCode(SubSeq(str, k, k))]

\* the words the program compares its input with
InsertWord == AsBytes("insert")

SelectWord == AsBytes("select")

ExitWord == AsBytes(".exit")

DotWord == AsBytes(".")

\* char::is_whitespace on an ASCII byte
IsSpace(b) == b \in {9, 10, 11, 12, 13, 32}

\* str::trim
trim(s) ==
    IF \A k \in 1..Len(s) : IsSpace(s[k])
    THEN << >>
    ELSE LET first == CHOOSE k \in 1..Len(s) :
                         /\ ~IsSpace(s[k])
                         /\ \A j \in 1..(k - 1) : IsSpace(s[j])
             final == CHOOSE k \in 1..Len(s) :
                         /\ ~IsSpace(s[k])
                         /\ \A j \in (k + 1)..Len(s) : IsSpace(s[j])
         IN  SubSeq(s, first, final)

\* str::starts_with
starts_with(s, prefix) ==
    Len(s) >= Len(prefix) /\ SubSeq(s, 1, Len(prefix)) = prefix

\* str::split_whitespace, collected: the maximal runs of non-whitespace
\* bytes of s, in order
RECURSIVE split_whitespace(_)
split_whitespace(s) ==
    IF \A k \in 1..Len(s) : IsSpace(s[k])
    THEN << >>
    ELSE LET first == CHOOSE k \in 1..Len(s) :
                         /\ ~IsSpace(s[k])
                         /\ \A j \in 1..(k - 1) : IsSpace(s[j])
             final == CHOOSE k \in first..Len(s) :
                         /\ (k = Len(s) \/ IsSpace(s[k + 1]))
                         /\ \A j \in first..k : ~IsSpace(s[j])
         IN  << SubSeq(s, first, final) >>
                \o split_whitespace(SubSeq(s, final + 1, Len(s)))

\* the digits ds[k..] added to the number acc, which is kept as its 16-bit
\* halves; ok is false once the number passes u32::MAX
RECURSIVE parse_digits(_, _, _)
parse_digits(ds, k, acc) ==
    IF k > Len(ds) \/ ~acc.ok
    THEN acc
    ELSE LET lo10 == acc.lo * 10 + (ds[k] - 48)
             hi10 == acc.hi * 10 + (lo10 \div 65536)
         IN  parse_digits(ds, k + 1,
                          [ok |-> hi10 <= 65535,
                           hi |-> hi10 % 65536,
                           lo |-> lo10 % 65536])

\* str::parse::<u32> letting the number wrap around past u32::MAX
u32_parse_wrapping(v) ==
    LET digits == IF Len(v) > 0 /\ v[1] = 43 THEN Tail(v) ELSE v
    IN  IF Len(digits) = 0 \/ \E k \in 1..Len(digits) : digits[k] \notin 48..57
        THEN [ok |-> FALSE, hi |-> 0, lo |-> 0]
        ELSE [parse_digits(digits, 1, [ok |-> TRUE, hi |-> 0, lo |-> 0])
                EXCEPT !.ok = TRUE]

\* str::parse::<u32>: an optional plus sign, then one or more decimal digits
\* whose value fits a u32
u32_parse(v) ==
    LET digits == IF Len(v) > 0 /\ v[1] = 43 THEN Tail(v) ELSE v
    IN  IF Len(digits) = 0 \/ \E k \in 1..Len(digits) : digits[k] \notin 48..57
        THEN [ok |-> FALSE, hi |-> 0, lo |-> 0]
        ELSE parse_digits(digits, 1, [ok |-> TRUE, hi |-> 0, lo |-> 0])

PrepareErr(e) == [res |-> e, stype |-> "None", row |-> << >>]

\* Statement::prepare_statement
prepare_statement(input) ==
    LET parts == split_whitespace(input)
    IN  IF Len(parts) = 0 THEN PrepareErr("InvalidInput")
        ELSE IF parts[1] = InsertWord
        THEN IF Len(parts) < 2 THEN PrepareErr("InvalidInput")
             ELSE IF parts[2][1] = 45 THEN PrepareErr("NegativeNumber")
             ELSE IF ~u32_parse(parts[2]).ok THEN PrepareErr("InvalidId")
             ELSE IF Len(parts) < 3 THEN PrepareErr("InvalidInput")
             ELSE IF Len(parts[3]) > COLUMN_USERNAME_SIZE
             THEN PrepareErr("UsernameTooLong")
             ELSE IF Len(parts) < 4 THEN PrepareErr("InvalidInput")
             ELSE IF Len(parts[4]) > COLUMN_EMAIL_SIZE
             THEN PrepareErr("EmailTooLong")
             ELSE [res   |-> "Ok",
                   stype |-> "Insert",
                   row   |-> Row(U32(u32_parse(parts[2]).hi,
                                     u32_parse(parts[2]).lo),
                                 parts[3], parts[4])]
        ELSE IF parts[1] = SelectWord
        THEN [res |-> "Ok", stype |-> "Select", row |-> << >>]
        ELSE PrepareErr("UnrecognizedStatement")

\* ------------------------------------------------------------ Cursor
NoCursor == [live |-> FALSE, row_num |-> 0, end_of_table |-> FALSE]

\* Cursor::from_start never at the end of the table
from_start_open(rows) ==
    [live |-> TRUE, row_num |-> 0, end_of_table |-> FALSE]

\* Cursor::from_start
from_start(rows) ==
    [live |-> TRUE, row_num |-> 0, end_of_table |-> (rows = 0)]

\* Cursor::from_end
from_end(rows) ==
    [live |-> TRUE, row_num |-> rows, end_of_table |-> TRUE]

\* Cursor::value: same addressing as Table::row_slot, at the cursor's row
cursor_value(pg, f, fl, c) ==
    LET row_num == c.row_num
        page_num == row_num \div ROWS_PER_PAGE
        got == get_page(pg, f, fl, page_num)
        row_offset == row_num % ROWS_PER_PAGE
        byte_offset == row_offset * ROW_SIZE
    IN  [res   |-> IF got.res = "Ok" THEN "Ok" ELSE "panic",
         via   |-> got.res,
         pages |-> got.pages,
         page  |-> page_num,
         from  |-> byte_offset,
         to    |-> byte_offset + ROW_SIZE]

\* Cursor::advance
advance(c, rows) ==
    [c EXCEPT !.row_num = c.row_num + 1,
              !.end_of_table = IF c.row_num + 1 >= rows THEN TRUE ELSE @]

\* One turn of the loop
\*     while !c.end_of_table { Row::deserialize(c.value()).print(); c.advance(); }
\* on the loop's state st: no turn is made once the cursor is at the end of
\* the table or value() has panicked
scan_turn(st, f, fl, rows) ==
    IF st.res # "Ok" \/ st.cursor.end_of_table
    THEN st
    ELSE LET e == cursor_value(st.pages, f, fl, st.cursor)
         IN  IF e.res # "Ok"
             THEN [st EXCEPT !.res = "panic", !.pages = e.pages]
             ELSE [res      |-> "Ok",
                   pages    |-> e.pages,
                   cursor   |-> advance(st.cursor, rows),
                   out      |-> Append(st.out,
                                   deserialize(Slice(e.pages[e.page],
                                                     e.from, e.to))),
                   advances |-> st.advances + 1]

\* n turns of the loop, one after the other (the run is halved to keep the
\* evaluation shallow)
RECURSIVE scan_turns(_, _, _, _, _)
scan_turns(st, f, fl, rows, n) ==
    IF st.res # "Ok" \/ st.cursor.end_of_table \/ n <= 0 THEN st
    ELSE IF n = 1 THEN scan_turn(st, f, fl, rows)
    ELSE scan_turns(scan_turns(st, f, fl, rows, n \div 2), f, fl, rows,
                    n - (n \div 2))

\* The loop run from the cursor c to its end: every turn adds 1 to row_num
\* and advance ends the loop once row_num reaches rows, so the loop makes at
\* most rows - c.row_num turns (one turn at least is made on a cursor that
\* is not at the end)
scan_loop(pg, f, fl, c, rows) ==
    scan_turns([res |-> "Ok", pages |-> pg, cursor |-> c, out |-> << >>,
                advances |-> 0],
               f, fl, rows, Max(rows - c.row_num, 1))

\* ------------------------------------------------------------ state
VARIABLES
    phase,        \* "open": a Table exists; "closed": it was dropped;
                  \* "panicked": an operation panicked, the Table not yet dropped
    file,         \* the backing file's bytes
    file_length,  \* Pager.file_length
    pages,        \* Pager.pages
    num_rows,     \* Table.num_rows
    cursor,       \* the Cursor borrowing the Table, if any
    last,         \* the last operation, its argument and its outcome
    out,          \* the records the last select printed
    hist,         \* history: the records inserted since the file was empty
    session,      \* history: how many times the file was opened
    codec,        \* the row codec applied to one input (codec runs only)
    dropped,      \* history: the slots that held a page when the Table was
                  \* last dropped, and the writes that drop made
    stmt          \* the last input line and what prepare_statement made of it

vars == << phase, file, file_length, pages, num_rows, cursor, last, out, hist,
           session, codec, dropped, stmt >>

Op(op, arg, res) ==
    [op |-> op, arg |-> arg, res |-> res, via |-> "None",
     page |-> 0, from |-> 0, to |-> 0]

SlotOp(op, arg, slot) ==
    [op |-> op, arg |-> arg, res |-> slot.res, via |-> slot.via,
     page |-> slot.page, from |-> slot.from, to |-> slot.to]

After(res) == IF res = "panic" THEN "panicked" ELSE "open"

NoCodec == [stage |-> "idle", row |-> << >>, bytes |-> "", back |-> << >>]

NoDrop == [loaded |-> {}, writes |-> << >>]

NoStmt == [input |-> << >>, res |-> "None", stype |-> "None", row |-> << >>]

\* Table::new on a file that does not exist yet
Init ==
    /\ phase = "open"
    /\ file = << >>
    /\ file_length = 0
    /\ pages = NoPages
    /\ num_rows = TableRows(0)
    /\ cursor = NoCursor
    /\ last = Op("new", 0, "Ok")
    /\ out = << >>
    /\ hist = << >>
    /\ session = 1
    /\ dropped = NoDrop
    /\ stmt = NoStmt
    /\ codec = NoCodec

\* no Cursor holds the Table's mutable borrow
Free == phase = "open" /\ ~cursor.live

\* an insert statement carrying record r
Insert(r) ==
    /\ Free
    /\ LET e == execute_insert(pages, file, file_length, num_rows, r)
       IN  /\ pages' = e.pages
           /\ num_rows' = e.num_rows
           /\ last' = Op("insert", num_rows, e.res)
           /\ phase' = After(e.res)
           /\ hist' = IF e.res = "Ok" THEN Append(hist, r) ELSE hist
    /\ out' = << >>
    /\ UNCHANGED << file, file_length, cursor, session, codec, dropped, stmt >>

\* a select statement
Select ==
    /\ Free
    /\ LET e == execute_select(pages, file, file_length, num_rows)
       IN  /\ pages' = e.pages
           /\ out' = e.out
           /\ last' = Op("select", num_rows, e.res)
           /\ phase' = After(e.res)
    /\ UNCHANGED << file, file_length, num_rows, cursor, hist, session, codec,
                    dropped, stmt >>

\* get_page writing the page it returns straight back to the file
GetPageWriteThrough(page_num) ==
    /\ Free
    /\ LET e == get_page(pages, file, file_length, page_num)
       IN  /\ pages' = e.pages
           /\ last' = Op("get_page", page_num, e.res)
           /\ phase' = After(e.res)
           /\ file' = IF e.res = "Ok"
                      THEN flush(file, e.pages, page_num, PAGE_SIZE)
                      ELSE file
    /\ out' = << >>
    /\ UNCHANGED << file_length, num_rows, cursor, hist, session, codec,
                    dropped, stmt >>

\* a call of Pager::get_page(page_num)
GetPage(page_num) ==
    /\ Free
    /\ LET e == get_page(pages, file, file_length, page_num)
       IN  /\ pages' = e.pages
           /\ last' = Op("get_page", page_num, e.res)
           /\ phase' = After(e.res)
    /\ out' = << >>
    /\ UNCHANGED << file, file_length, num_rows, cursor, hist, session, codec,
                    dropped, stmt >>

\* a call of Table::row_slot(row_num)
RowSlot(row_num) ==
    /\ Free
    /\ LET e == row_slot(pages, file, file_length, row_num)
       IN  /\ pages' = e.pages
           /\ last' = SlotOp("row_slot", row_num, e)
           /\ phase' = After(e.res)
    /\ out' = << >>
    /\ UNCHANGED << file, file_length, num_rows, cursor, hist, session, codec,
                    dropped, stmt >>

\* Cursor::from_start(&mut table)
CursorFromStart ==
    /\ Free
    /\ cursor' = from_start(num_rows)
    /\ last' = Op("from_start", 0, "Ok")
    /\ out' = << >>
    /\ UNCHANGED << phase, file, file_length, pages, num_rows, hist, session,
                    codec, dropped, stmt >>

\* Cursor::from_end(&mut table)
CursorFromEnd ==
    /\ Free
    /\ cursor' = from_end(num_rows)
    /\ last' = Op("from_end", 0, "Ok")
    /\ out' = << >>
    /\ UNCHANGED << phase, file, file_length, pages, num_rows, hist, session,
                    codec, dropped, stmt >>

\* cursor.value(); a panic unwinds through the cursor
CursorValue ==
    /\ phase = "open" /\ cursor.live
    /\ LET e == cursor_value(pages, file, file_length, cursor)
       IN  /\ pages' = e.pages
           /\ last' = SlotOp("value", cursor.row_num, e)
           /\ phase' = After(e.res)
           /\ cursor' = IF e.res = "Ok" THEN cursor ELSE NoCursor
    /\ UNCHANGED << file, file_length, num_rows, out, hist, session, codec,
                    dropped, stmt >>

\* cursor.advance()
CursorAdvance ==
    /\ phase = "open" /\ cursor.live
    /\ cursor' = advance(cursor, num_rows)
    /\ last' = Op("advance", cursor.row_num, "Ok")
    /\ UNCHANGED << phase, file, file_length, pages, num_rows, out, hist,
                    session, codec, dropped, stmt >>

\* the Cursor goes out of scope
CursorDrop ==
    /\ phase = "open" /\ cursor.live
    /\ cursor' = NoCursor
    /\ last' = Op("cursor_drop", cursor.row_num, "Ok")
    /\ UNCHANGED << phase, file, file_length, pages, num_rows, out, hist,
                    session, codec, dropped, stmt >>

\* the Table goes out of scope (at exit, or while a panic unwinds)
Teardown ==
    /\ Free \/ phase = "panicked"
    /\ LET e == table_drop(file, pages, num_rows)
       IN  /\ file' = e.file
           /\ last' = Op("drop", num_rows, IF e.panic THEN "panic" ELSE "Ok")
           /\ dropped' = [loaded |-> {p \in DOMAIN pages : pages[p] # None},
                          writes |-> e.writes]
    /\ pages' = NoPages
    /\ phase' = "closed"
    /\ out' = << >>
    /\ UNCHANGED << file_length, num_rows, cursor, hist, session, codec,
                    stmt >>

\* Table::new on the file the previous run left (a run that panicked may
\* also have been aborted without dropping its Table)
Reopen ==
    /\ phase \in {"closed", "panicked"}
    /\ file_length' = FileLen(file)
    /\ num_rows' = TableRows(FileLen(file))
    /\ pages' = NoPages
    /\ phase' = "open"
    /\ last' = Op("new", 0, "Ok")
    /\ out' = << >>
    /\ session' = session + 1
    /\ dropped' = NoDrop
    /\ UNCHANGED << file, cursor, hist, codec, stmt >>

\* One turn of main's loop on the line read: a meta command (".exit" ends
\* main), a rejected statement, or a statement executed.  The Table of
\* main.rs keeps its pages in memory only: it opens no file, an absent page
\* starts as zeros (the pager's page on an empty file), and leaving main
\* frees the pages and writes nothing.
Line(line) ==
    /\ Free
    /\ FileLen(file) = 0 /\ file_length = 0
    /\ LET input == trim(line)
           st == prepare_statement(input)
       IN  IF starts_with(input, DotWord)
           THEN IF starts_with(input, ExitWord)
                THEN /\ last' = Op("exit", num_rows, "Ok")
                     /\ pages' = NoPages
                     /\ phase' = "closed"
                     /\ out' = << >>
                     /\ stmt' = [input |-> input, res |-> "Exit",
                                 stype |-> "None", row |-> << >>]
                     /\ UNCHANGED << file, file_length, num_rows, cursor,
                                     hist, session, codec, dropped >>
                ELSE /\ stmt' = [input |-> input,
                                 res |-> "UnrecognizedCommand",
                                 stype |-> "None", row |-> << >>]
                     /\ last' = Op("rejected", 0, "UnrecognizedCommand")
                     /\ UNCHANGED << phase, file, file_length, pages,
                                     num_rows, cursor, out, hist, session,
                                     codec, dropped >>
           ELSE IF st.res # "Ok"
           THEN /\ stmt' = [input |-> input, res |-> st.res,
                            stype |-> st.stype, row |-> st.row]
                /\ last' = Op("rejected", 0, st.res)
                /\ UNCHANGED << phase, file, file_length, pages, num_rows,
                                cursor, out, hist, session, codec, dropped >>
           ELSE IF st.stype = "Insert"
           THEN /\ stmt' = [input |-> input, res |-> st.res,
                            stype |-> st.stype, row |-> st.row]
                /\ LET e == execute_insert(pages, file, file_length,
                                           num_rows, st.row)
                   IN  /\ pages' = e.pages
                       /\ num_rows' = e.num_rows
                       /\ last' = Op("insert", num_rows, e.res)
                       /\ phase' = After(e.res)
                       /\ hist' = IF e.res = "Ok" THEN Append(hist, st.row)
                                                  ELSE hist
                /\ out' = << >>
                /\ UNCHANGED << file, file_length, cursor, session, codec,
                                dropped >>
           ELSE /\ stmt' = [input |-> input, res |-> st.res,
                            stype |-> st.stype, row |-> st.row]
                /\ LET e == execute_select(pages, file, file_length, num_rows)
                   IN  /\ pages' = e.pages
                       /\ out' = e.out
                       /\ last' = Op("select", num_rows, e.res)
                       /\ phase' = After(e.res)
                /\ UNCHANGED << file, file_length, num_rows, cursor, hist,
                                session, codec, dropped >>

\* ------------------------------------------------------------ bounds
\* Spec: rows inserted in all, times the file is opened, how far a cursor
\* is advanced past the last row
MaxRows == 15
MaxSessions == 2
MaxOverrun == 1
\* SpecFill: times the file is opened, and the largest table selected from
FillSessions == 2
MaxSelectRows == 200
\* SpecAppend: records the second session appends, times the file is opened
MaxAppend == 2
AppendSessions == 3
\* SpecStmt: rows inserted by the lines read
MaxStmtRows == 2
\* SpecRescan: the first session has inserted at most this many records,
\* or all but at most this many of the table's capacity
MaxScanFill == 6

\* ------------------------------------------------------------ sessions
\* page and row numbers tried by the direct calls: the first ones, the first
\* ones past the page array, and ones past the checked maximum (and, for
\* row_slot, the row after the last)
ProbePages == {0, TABLE_MAX_PAGES, TABLE_MAX_PAGES + 1}

ProbeRows ==
    {0, TABLE_MAX_ROWS, TABLE_MAX_ROWS + ROWS_PER_PAGE}

\* The file-backed Table of pager.rs over its lifetimes: between Table::new
\* and the drop its callers run execute_insert and execute_select on it and
\* call get_page, row_slot and the Cursor directly, in any order.  (The
\* main of main.rs does not use this Table; its loop is StmtNext.)
Next ==
    \/ Len(hist) < MaxRows /\ Insert(RowAt(num_rows))
    \/ Select
    \/ \E p \in ProbePages : GetPage(p)
    \/ \E r \in ProbeRows \cup {num_rows} : RowSlot(r)
    \/ CursorFromStart
    \/ CursorFromEnd
    \/ CursorValue
    \/ cursor.row_num < num_rows + MaxOverrun /\ CursorAdvance
    \/ CursorDrop
    \/ Teardown
    \/ session < MaxSessions /\ Reopen

Spec == Init /\ [][Next]_vars

\* One insert statement, of RowAt(num_rows), on the table st; an insert
\* that did not succeed ends the run
insert_next(st) ==
    IF st.res # "Ok"
    THEN st
    ELSE LET e == execute_insert(st.pages, << >>, 0, st.num_rows,
                                 RowAt(st.num_rows))
         IN  [res      |-> e.res,
              pages    |-> e.pages,
              num_rows |-> e.num_rows,
              hist     |-> IF e.res = "Ok"
                           THEN Append(st.hist, RowAt(st.num_rows))
                           ELSE st.hist]

\* The tables after 1, 2, ..., n further insert statements on the table st
\* (the run is halved to keep the evaluation shallow)
RECURSIVE insert_run(_, _)
insert_run(st, n) ==
    IF n <= 0 THEN << >>
    ELSE IF n = 1 THEN << insert_next(st) >>
    ELSE LET first == insert_run(st, n \div 2)
             rest == insert_run(first[Len(first)], n - (n \div 2))
         IN  first \o rest

\* Table::new on a file that does not exist yet
NewTable ==
    [res |-> "Ok", pages |-> NoPages, num_rows |-> TableRows(0), hist |-> << >>]

\* Filled[n + 1]: that table after n insert statements
Filled == << NewTable >> \o insert_run(NewTable, TABLE_MAX_ROWS)

\* A first session that has inserted some number of records, up to the
\* capacity of the table, into the empty file
FillInit ==
    \E n \in 0..TABLE_MAX_ROWS :
        LET st == Filled[n + 1]
        IN  /\ st.res = "Ok"
            /\ phase = "open"
            /\ file = << >>
            /\ file_length = 0
            /\ pages = st.pages
            /\ num_rows = st.num_rows
            /\ cursor = NoCursor
            /\ last = IF n = 0 THEN Op("new", 0, "Ok")
                               ELSE Op("insert", n - 1, "Ok")
            /\ out = << >>
            /\ hist = st.hist
            /\ session = 1
            /\ codec = NoCodec
            /\ dropped = NoDrop
            /\ stmt = NoStmt

\* The file-backed Table of pager.rs: the session goes on inserting, or is
\* torn down; the file is then opened again and read back.
FillNext ==
    \/ session = 1 /\ Insert(RowAt(num_rows))
    \/ num_rows <= MaxSelectRows /\ Select
    \/ Teardown
    \/ session < FillSessions /\ Reopen

SpecFill == FillInit /\ [][FillNext]_vars

\* ------------------------------------------------------------ append runs
\* The first session is torn down; a second opens the file, appends one
\* record or more and is torn down; the file is then opened again and read
\* back.
AppendNext ==
    \/ (session # 2 \/ num_rows > TableRows(file_length)) /\ Teardown
    \/ session < AppendSessions /\ Reopen
    \/ session = 2 /\ num_rows < TableRows(file_length) + MaxAppend
          /\ Insert(RowAt(num_rows))
    \/ session > 2 /\ num_rows <= MaxSelectRows /\ Select

SpecAppend == FillInit /\ [][AppendNext]_vars

\* ------------------------------------------------------------ load runs
\* The first session is torn down and the file opened again; the new
\* session then makes one call of get_page: on the first page, on the
\* file's last page (full or partly written), on the page after it, on the
\* one after that, or on the last page of the page array.
LoadPages ==
    { p \in {0, Len(file) - 1, Len(file), Len(file) + 1, TABLE_MAX_PAGES - 1} :
         p \in 0..(TABLE_MAX_PAGES - 1) }

LoadNext ==
    \/ session = 1 /\ Teardown
    \/ session < FillSessions /\ Reopen
    \/ \E p \in LoadPages : session > 1 /\ last.op = "new" /\ GetPage(p)

SpecLoad == FillInit /\ [][LoadNext]_vars

\* ------------------------------------------------------------ scan runs
\* A session on the empty file inserts records and, between inserts, runs
\* the cursor loop
\*     let mut c = Cursor::from_start(&mut table);
\*     while !c.end_of_table { Row::deserialize(c.value()).print(); c.advance(); }
\* and may go on advancing the cursor past the end before dropping it.

\* Row::deserialize(c.value()).print(), the first half of the loop body
ScanValue ==
    /\ phase = "open" /\ cursor.live /\ ~cursor.end_of_table
    /\ last.op \in {"from_start", "advance"}
    /\ LET e == cursor_value(pages, file, file_length, cursor)
       IN  /\ pages' = e.pages
           /\ last' = SlotOp("value", cursor.row_num, e)
           /\ phase' = After(e.res)
           /\ cursor' = IF e.res = "Ok" THEN cursor ELSE NoCursor
           /\ out' = IF e.res = "Ok"
                     THEN Append(out, deserialize(Slice(e.pages[e.page],
                                                        e.from, e.to)))
                     ELSE out
    /\ UNCHANGED << file, file_length, num_rows, hist, session, codec,
                    dropped, stmt >>

\* c.advance(), the second half of the loop body
ScanAdvance == last.op = "value" /\ CursorAdvance

\* the whole loop, run on a cursor fresh from from_start; a panic unwinds
\* through the cursor
ScanLoop ==
    /\ phase = "open" /\ cursor.live
    /\ last.op = "from_start"
    /\ LET e == scan_loop(pages, file, file_length, cursor, num_rows)
       IN  /\ pages' = e.pages
           /\ out' = e.out
           /\ last' = Op("scan", e.advances, e.res)
           /\ phase' = After(e.res)
           /\ cursor' = IF e.res = "Ok" THEN e.cursor ELSE NoCursor
    /\ UNCHANGED << file, file_length, num_rows, hist, session, codec,
                    dropped, stmt >>

ScanNext ==
    \/ Len(hist) < MaxRows /\ Insert(RowAt(num_rows))
    \/ CursorFromStart
    \/ ScanValue
    \/ ScanAdvance
    \/ cursor.end_of_table /\ cursor.row_num < num_rows + MaxOverrun
          /\ CursorAdvance
    \/ cursor.end_of_table /\ CursorDrop

\* The loop is sequential code: once entered, its next step is taken.
SpecScan ==
    Init /\ [][ScanNext]_vars /\ WF_vars(ScanValue) /\ WF_vars(ScanAdvance)

\* ------------------------------------------------------------ rescan runs
\* A first session that has inserted few records, or nearly as many as the
\* table takes, is torn down; the file is opened again and the new session
\* runs the cursor loop from from_start, step by step or as a whole, and may
\* go on advancing the cursor past the end.
RescanInit ==
    /\ FillInit
    /\ \/ num_rows <= MaxScanFill
       \/ num_rows >= TABLE_MAX_ROWS - MaxScanFill

RescanNext ==
    \/ session = 1 /\ Teardown
    \/ session = 1 /\ Reopen
    \/ session > 1 /\ CursorFromStart
    \/ ScanLoop
    \/ ScanValue
    \/ ScanAdvance
    \/ cursor.end_of_table /\ cursor.row_num < num_rows + MaxOverrun
          /\ CursorAdvance

SpecRescan == RescanInit /\ [][RescanNext]_vars

\* ------------------------------------------------------------ statement runs
\* the byte b, n times
Run(b, n) == [k \in 1..n |-> b]

\* The lines typed at the prompt: statements with every field, with
\* surplus white space and surplus fields (four spellings of one record),
\* ids at the ends of the u32 range, fields of the greatest width; lines with a field missing, an id
\* that is negative, too large or no number, a field one byte too wide, a
\* statement word that is none; and meta commands.
InputLines ==
    { AsBytes("insert 1 alice alice@x.com"),
      AsBytes("  insert   7 bob  b@x.io  "),
      AsBytes("insert 4294967295 u e"),
      AsBytes("insert +5 a b"),
      AsBytes("insert 005 a b"),
      AsBytes("insert 5 a b extra"),
      AsBytes("insert") \o << 9 >> \o AsBytes("5") \o << 9 >> \o AsBytes("a b"),
      AsBytes("insert 0 ") \o Run(117, COLUMN_USERNAME_SIZE) \o AsBytes(" ")
          \o Run(101, COLUMN_EMAIL_SIZE),
      AsBytes("select"),
      AsBytes("select all"),
      << >>,
      AsBytes("   "),
      AsBytes("insert"),
      AsBytes("insert 1"),
      AsBytes("insert 1 bob"),
      AsBytes("insert -1 a b"),
      AsBytes("insert -1"),
      AsBytes("insert - a b"),
      AsBytes("insert + a b"),
      AsBytes("insert 4294967296 a b"),
      AsBytes("insert 99999999999999999999 a b"),
      AsBytes("insert abc a b"),
      AsBytes("insert 1.5 a b"),
      AsBytes("insert 12x"),
      AsBytes("insert 1 ") \o Run(117, COLUMN_USERNAME_SIZE + 1) \o AsBytes(" e"),
      AsBytes("insert 1 ") \o Run(117, COLUMN_USERNAME_SIZE + 1),
      AsBytes("insert 1 u ") \o Run(101, COLUMN_EMAIL_SIZE + 1),
      AsBytes("update 1 a b"),
      AsBytes("Insert 1 a b"),
      AsBytes("selects"),
      AsBytes("inser"),
      AsBytes(".exit"),
      AsBytes(".exitnow"),
      AsBytes(".tables"),
      AsBytes(".") }

\* main's loop: any line at each turn; the bound stops only the lines that
\* would insert one more row
StmtNext ==
    \E line \in InputLines :
        /\ \/ Len(hist) < MaxStmtRows
           \/ starts_with(trim(line), DotWord)
           \/ prepare_statement(trim(line)).res # "Ok"
           \/ prepare_statement(trim(line)).stype # "Insert"
        /\ Line(line)

SpecStmt == Init /\ [][StmtNext]_vars

\* ------------------------------------------------------------ codec runs
\* The codec applied to one record, or deserialize applied to one raw
\* ROW_SIZE-byte buffer.
CodecIds ==
    { U32(0, 0), U32(0, 1), U32(0, 255), U32(0, 256), U32(1, 0),
      U32(258, 772), U32(32767, 65535), U32(32768, 0), U32(65535, 65535) }

CodecUsernames ==
    { << >>, <<97>>, <<255, 0, 98>>,
      [k \in 1..COLUMN_USERNAME_SIZE |-> 64 + k] }

CodecEmails ==
    { << >>, <<97, 64, 98>>, <<0, 0, 1>>,
      [k \in 1..COLUMN_EMAIL_SIZE |-> 256 - k] }

CodecRows ==
    { Row(id, u, e) : id \in CodecIds, u \in CodecUsernames, e \in CodecEmails }

CodecBuffers ==
    { Zeros(ROW_SIZE),
      Bytes([k \in 1..ROW_SIZE |-> 255]),
      Bytes([k \in 1..ROW_SIZE |-> k % 256]),
      Bytes([k \in 1..ROW_SIZE |-> (7 * k + 128) % 256]) }

CodecInit ==
    /\ phase = "open"
    /\ file = << >>
    /\ file_length = 0
    /\ pages = NoPages
    /\ num_rows = TableRows(0)
    /\ cursor = NoCursor
    /\ last = Op("new", 0, "Ok")
    /\ out = << >>
    /\ hist = << >>
    /\ session = 1
    /\ dropped = NoDrop
    /\ stmt = NoStmt
    /\ codec \in
         { [stage |-> "row", row |-> r, bytes |-> "", back |-> << >>] :
              r \in CodecRows }
         \cup
         { [stage |-> "raw", row |-> << >>, bytes |-> b, back |-> << >>] :
              b \in CodecBuffers }

\* row.serialize()
Serialize ==
    /\ codec.stage = "row"
    /\ codec' = [codec EXCEPT !.stage = "bytes", !.bytes = serialize(codec.row)]
    /\ UNCHANGED << phase, file, file_length, pages, num_rows, cursor, last,
                    out, hist, session, dropped, stmt >>

\* Row::deserialize(&bytes)
Deserialize ==
    /\ codec.stage \in {"bytes", "raw"}
    /\ codec' = [codec EXCEPT
                   !.stage = IF codec.stage = "raw" THEN "parsed" ELSE "back",
                   !.back = deserialize(codec.bytes)]
    /\ UNCHANGED << phase, file, file_length, pages, num_rows, cursor, last,
                    out, hist, session, dropped, stmt >>

CodecNext == Serialize \/ Deserialize

SpecCodec == CodecInit /\ [][CodecNext]_vars

\* ------------------------------------------------------------ addressing runs
\* One call of Table::row_slot on a freshly opened empty table, for every
\* row number up to one page past the page array.
SlotNext ==
    \E r \in 0..(TABLE_MAX_ROWS + 2 * ROWS_PER_PAGE - 1) :
        last.op = "new" /\ RowSlot(r)

SpecSlot == Init /\ [][SlotNext]_vars

\* ------------------------------------------------------------ claims
\* the bytes of the file at offsets from..to-1, all inside one block
FileSlice(f, from, to) ==
    Slice(f[(from \div 4096) + 1], from % 4096,
          (from % 4096) + (to - from))

\* the file offset of row i as the file format states it
RowOffset(i) == (i \div 14) * 4096 + (i % 14) * 291

\* C1: a table filled from the empty file with N records, dropped and
\* opened again has num_rows = N, and a select then prints exactly the N
\* inserted records in insertion order.
C1_PersistenceRoundTrip ==
    (session = 2 /\ phase = "open") =>
        /\ num_rows = Len(hist)
        /\ (last.op = "select" => (last.res = "Ok" /\ out = hist))

\* C2: an insert while num_rows < 14 * 100 succeeds and adds one row; an
\* insert at num_rows = 1400 (or above) returns TableFull and leaves
\* num_rows and every page buffer unchanged.
C2_Capacity ==
    [][ last'.op = "insert" =>
          IF num_rows < 14 * 100
          THEN last'.res = "Ok" /\ num_rows' = num_rows + 1
          ELSE last'.res = "TableFull" /\ num_rows' = num_rows
                 /\ pages' = pages /\ phase' = "open" ]_vars

C2_Witness ==
    /\ num_rows = 1400
    /\ Len(hist) = 1400
    /\ last = Op("insert", 1400, "TableFull")

\* C3: after the first session (empty file, N inserts) is torn down, the
\* file is floor(N/14)*4096 + (N%14)*291 bytes long.
C3_FileLength ==
    (session = 1 /\ phase = "closed") =>
        FileLen(file) = (Len(hist) \div 14) * 4096 + (Len(hist) % 14) * 291

C3_Witness ==
    /\ session = 1 /\ phase = "closed"
    /\ Len(hist) = 3 * 14 + 5
    /\ FileLen(file) = 3 * 4096 + 5 * 291

\* C4: after the first session is torn down, the 291 bytes of the file at
\* offset (i/14)*4096 + (i%14)*291 are the serialized i-th inserted record,
\* for every i below the number of records inserted.
C4_FileLayout ==
    (session = 1 /\ phase = "closed") =>
        \A i \in 0..(Len(hist) - 1) :
            /\ RowOffset(i) + 291 <= FileLen(file)
            /\ FileSlice(file, RowOffset(i), RowOffset(i) + 291)
                  = serialize(hist[i + 1])

C4_Witness ==
    /\ session = 1 /\ phase = "closed"
    /\ Len(hist) = 30
    /\ FileSlice(file, 2 * 4096 + 291, 2 * 4096 + 2 * 291) = serialize(RowAt(29))

\* C5: get_page(page_num) for a page_num with no slot in the page array
\* (page_num >= 100) returns FetchOutOfBounds, the process goes on, and the
\* page slots and the file are unchanged.
C5_PageIndexReported ==
    [][ (last'.op = "get_page" /\ last'.arg >= 100) =>
          /\ last'.res = "FetchOutOfBounds"
          /\ phase' = "open"
          /\ pages' = pages
          /\ file' = file ]_vars

\* the bytes of row i as the table holds them: in the page buffer once the
\* page is loaded, in the file (zeros past its end) before
RowContent(pg, f, i) ==
    Slice(IF pg[i \div 14] # None
          THEN pg[i \div 14]
          ELSE SeekRead(f, i \div 14, Zeros(4096)),
          (i % 14) * 291, (i % 14) * 291 + 291)

\* C6: a select prints exactly num_rows records, in a session on a file
\* that was empty the i-th printed is the i-th inserted, and a select
\* changes neither num_rows nor the bytes of any row.
C6_SelectOrder ==
    [][ last'.op = "select" =>
          /\ num_rows' = num_rows
          /\ \A i \in 0..(num_rows - 1) :
                RowContent(pages', file', i) = RowContent(pages, file, i)
          /\ session = 1 =>
                /\ last'.res = "Ok"
                /\ Len(out') = num_rows
                /\ Len(hist) = num_rows
                /\ \A i \in 1..num_rows : out'[i] = hist[i] ]_vars

C6_Witness ==
    /\ session = 1 /\ phase = "open"
    /\ last = Op("select", 15, "Ok")
    /\ Len(out) = 15
    /\ out[15] = RowAt(14)
    /\ out[1] # out[2]

\* C7: deserialize(serialize(r)) has r's id, username bytes and email
\* bytes, and deserialize yields a record on every 291-byte buffer.
C7_CodecRoundTrip ==
    /\ codec.stage = "back" =>
          /\ codec.back.id = codec.row.id
          /\ codec.back.username = codec.row.username
          /\ codec.back.email = codec.row.email
    /\ codec.stage \in {"back", "parsed"} =>
          /\ codec.back.id.hi \in 0..65535
          /\ codec.back.id.lo \in 0..65535
          /\ BLen(codec.back.username) = 32
          /\ BLen(codec.back.email) = 255

C7_Witness ==
    /\ codec.stage = "back"
    /\ codec.row.id = U32(32768, 0)
    /\ codec.back.id = U32(32768, 0)
    /\ ByteAt(codec.back.username, 1) = 0
    /\ ByteAt(codec.back.username, 2) = 98
    /\ ByteAt(codec.back.email, 254) = 1

\* byte k of the u32 id: (id / 256^k) mod 256
IdByte(id, k) ==
    IF k < 2 THEN (id.lo \div (256 ^ k)) % 256
             ELSE (id.hi \div (256 ^ (k - 2))) % 256

\* C8: serialize yields 291 bytes: the id in little-endian order in bytes
\* 0..4, the 32 username bytes in 4..36, the 255 email bytes in 36..291.
C8_SerializedLayout ==
    codec.stage = "bytes" =>
        /\ Len(codec.bytes) = 2 * 291
        /\ \A k \in 0..3 : ByteAt(codec.bytes, k) = IdByte(codec.row.id, k)
        /\ Slice(codec.bytes, 4, 36) = codec.row.username
        /\ Slice(codec.bytes, 36, 291) = codec.row.email
        /\ BLen(codec.row.username) = 32
        /\ BLen(codec.row.email) = 255

C8_Witness ==
    /\ codec.stage = "bytes"
    /\ codec.row.id = U32(258, 772)
    /\ Slice(codec.bytes, 0, 4) = "04030201"
    /\ Slice(codec.bytes, 4, 7) = "ff0062"
    /\ Slice(codec.bytes, 290, 291) = "01"

\* C9: for every row index i below 1400, row_slot(i) is the 291 bytes at
\* offset (i % 14) * 291 of page i / 14, inside the 4096-byte page, and
\* overlaps the range of no other row index.
C9_RowAddressing ==
    (last.op = "row_slot" /\ last.arg < 14 * 100) =>
        /\ last.res = "Ok"
        /\ last.page = last.arg \div 14
        /\ last.from = (last.arg % 14) * 291
        /\ last.to = last.from + 291
        /\ last.to <= 4096
        /\ pages[last.page] # None
        /\ BLen(pages[last.page]) = 4096
        /\ \A j \in 0..(14 * 100 - 1) :
              j # last.arg =>
                 \/ slot_range(j).page # last.page
                 \/ slot_range(j).to <= last.from
                 \/ last.to <= slot_range(j).from

C9_Witness ==
    /\ last.op = "row_slot" /\ last.arg = 1399 /\ last.res = "Ok"
    /\ last.page = 99 /\ last.from = 3783 /\ last.to = 4074
    /\ pages[99] # None

\* C10: between Table::new and teardown no operation changes the backing
\* file: only the drop of the Table writes it.
C10_NoProactiveFlush ==
    [][ last'.op # "drop" => file' = file ]_vars

C10_Witness ==
    /\ phase = "open" /\ session = 2
    /\ last.op = "value" /\ last.res = "Ok"
    /\ num_rows > TableRows(file_length)
    /\ FileLen(file) = file_length
    /\ file_length > 0
    /\ RowContent(pages, file, num_rows - 1) # Zeros(291)

\* C11: once a page slot holds a buffer, no operation before the drop of
\* the Table empties it, and every get_page on it (direct, or through
\* row_slot, Cursor::value or a select) leaves the buffer as it was, the
\* bytes written into it by earlier inserts included: the page is not read
\* from the file again.
C11_CacheCoherence ==
    [][ last'.op \notin {"drop", "new"} =>
          \A p \in DOMAIN pages :
             pages[p] # None =>
                /\ pages'[p] # None
                /\ last'.op # "insert" => pages'[p] = pages[p] ]_vars

C11_Witness ==
    /\ phase = "open" /\ session = 1
    /\ last = Op("get_page", 0, "Ok")
    /\ num_rows = 2
    /\ file = << >>
    /\ Slice(pages[0], 0, 291) = serialize(RowAt(0))
    /\ Slice(pages[0], 291, 2 * 291) = serialize(RowAt(1))

\* the 4096 bytes at offset p * 4096 of the file f of length fl, zeros
\* standing for the bytes at and past the end of the file
PageOfFile(f, fl, p) ==
    LET rest == fl - p * 4096
        have == IF rest <= 0 THEN 0 ELSE IF rest >= 4096 THEN 4096 ELSE rest
    IN  (IF have > 0 THEN FileSlice(f, p * 4096, p * 4096 + have) ELSE "")
            \o Zeros(4096 - have)

\* C12: the first get_page(p) of a session, for a page p of the page array,
\* returns a 4096-byte buffer whose byte k is the file's byte at offset
\* p * 4096 + k where that offset is below the file length seen at open,
\* and 0 elsewhere: for a full page of the file, for its partly written
\* last page, and for a page at or past the end of the file.
C12_LazyLoad ==
    [][ (last'.op = "get_page" /\ last'.arg < 100 /\ pages[last'.arg] = None) =>
          /\ last'.res = "Ok"
          /\ BLen(pages'[last'.arg]) = 4096
          /\ pages'[last'.arg] = PageOfFile(file, file_length, last'.arg) ]_vars

C12_Witness ==
    /\ session = 2 /\ phase = "open"
    /\ last = Op("get_page", 3, "Ok")
    /\ file_length = 3 * 4096 + 5 * 291
    /\ Slice(pages[3], 4 * 291, 5 * 291) = serialize(RowAt(46))
    /\ Slice(pages[3], 5 * 291, 4096) = Zeros(4096 - 5 * 291)

\* the writes of the last drop that went to page p
WritesTo(p) == { k \in 1..Len(dropped.writes) : dropped.writes[k].page = p }

\* C13: a drop of the Table at row count n writes each page held in a slot
\* below n / 14 once, 4096 bytes at offset index * 4096; writes the page
\* held in slot n / 14, when n % 14 > 0, once, (n % 14) * 291 bytes at
\* offset (n / 14) * 4096; and makes no other write: none for an empty
\* slot, none twice for one page.
C13_TwoPhaseFlush ==
    last.op = "drop" =>
        LET n == last.arg
        IN  /\ \A p \in 0..99 :
                  Cardinality(WritesTo(p)) =
                     IF p \in dropped.loaded
                           /\ (p < n \div 14 \/ (p = n \div 14 /\ n % 14 > 0))
                     THEN 1 ELSE 0
            /\ \A k \in 1..Len(dropped.writes) :
                  LET w == dropped.writes[k]
                  IN  /\ w.page \in 0..99
                      /\ w.offset = w.page * 4096
                      /\ w.size = IF w.page < n \div 14 THEN 4096
                                                        ELSE (n % 14) * 291

C13_Witness ==
    /\ last = Op("drop", 15, "Ok")
    /\ session = 2
    /\ dropped.loaded = {1}
    /\ dropped.writes = << [page |-> 1, offset |-> 4096, size |-> 291] >>
    /\ FileLen(file) = 4096 + 291

\* C14: after a drop of the Table at row count n every slot is empty, and
\* the pages wholly past the rows (index above n / 14, or n / 14 itself when
\* n % 14 = 0) are not written, loaded or not: the drop makes no write to
\* them and the file's bytes in their range are what they were.
C14_DiscardRest ==
    [][ last'.op = "drop" =>
          /\ \A p \in 0..99 : pages'[p] = None
          /\ \A p \in 0..99 :
                (p > num_rows \div 14 \/ (p = num_rows \div 14 /\ num_rows % 14 = 0)) =>
                   /\ \A k \in 1..Len(dropped'.writes) :
                         dropped'.writes[k].page # p
                   /\ (p < Len(file') \/ p < Len(file)) =>
                         (p < Len(file') /\ p < Len(file)
                            /\ file'[p + 1] = file[p + 1]) ]_vars

C14_Witness ==
    /\ last = Op("drop", 14, "Ok")
    /\ session = 1
    /\ dropped.loaded = {0, 1}
    /\ dropped.writes = << [page |-> 0, offset |-> 0, size |-> 4096] >>
    /\ FileLen(file) = 4096
    /\ pages = NoPages

\* C15: Table::row_slot and Cursor::value at a row number of 1400 or more
\* fail on the FetchOutOfBounds that get_page's bound check returns, not on
\* an index into the page array past its end.
C15_RowIndexPastMax ==
    (last.op \in {"row_slot", "value"} /\ last.arg >= 1400) =>
        /\ last.res = "panic"
        /\ last.via = "FetchOutOfBounds"

\* the bytes of page p past its 14 row slots, as the table holds them
Slack(pg, f, p) ==
    Slice(IF pg[p] # None THEN pg[p] ELSE SeekRead(f, p, Zeros(4096)),
          14 * 291, 4096)

\* C16: a successful insert at row count n leaves the serialized record in
\* the 291 bytes of row slot n, changes no byte of any other row slot nor
\* of the unused tail of the page, and makes num_rows n + 1.  (The rows of
\* the other pages are compared page by page: their slot and the file are
\* as before.)
C16_InsertFrame ==
    [][ (last'.op = "insert" /\ last'.res = "Ok") =>
          /\ num_rows' = num_rows + 1
          /\ last'.arg = num_rows
          /\ hist' = Append(hist, hist'[Len(hist')])
          /\ RowContent(pages', file', num_rows) = serialize(hist'[Len(hist')])
          /\ \A i \in 0..(14 * 100 - 1) :
                (i # num_rows /\ i \div 14 = num_rows \div 14) =>
                   RowContent(pages', file', i) = RowContent(pages, file, i)
          /\ Slack(pages', file', num_rows \div 14)
                = Slack(pages, file, num_rows \div 14)
          /\ \A p \in 0..99 : p # num_rows \div 14 => pages'[p] = pages[p]
          /\ file' = file ]_vars

C16_Witness ==
    /\ session = 2 /\ phase = "open"
    /\ last = Op("insert", 5, "Ok")
    /\ file_length = 5 * 291
    /\ num_rows = 6
    /\ RowContent(pages, file, 5) = serialize(RowAt(5))
    /\ RowContent(pages, file, 4) = serialize(RowAt(4))
    /\ RowContent(pages, file, 6) = Zeros(291)

\* C17: Cursor::from_start gives row_num = 0 and end_of_table = (num_rows
\* = 0); Cursor::from_end gives row_num = num_rows and end_of_table = true;
\* neither changes num_rows, a page slot or the file.
C17_CursorConstruction ==
    [][ (last'.op \in {"from_start", "from_end"}) =>
          /\ cursor'.live
          /\ last'.op = "from_start" =>
                /\ cursor'.row_num = 0
                /\ cursor'.end_of_table <=> (num_rows = 0)
          /\ last'.op = "from_end" =>
                /\ cursor'.row_num = num_rows
                /\ cursor'.end_of_table
          /\ num_rows' = num_rows
          /\ pages' = pages
          /\ file' = file ]_vars

C17_Witness ==
    /\ last.op = "from_start"
    /\ cursor = [live |-> TRUE, row_num |-> 0, end_of_table |-> FALSE]
    /\ num_rows = 3
    /\ pages[0] # None

\* C18: while a cursor made by from_start lives, end_of_table holds
\* exactly when row_num >= num_rows; each advance adds 1 to row_num and
\* nothing else moves it; end_of_table never goes back to false; every
\* value() of the loop "while !end_of_table { value(); advance() }" yields
\* the row at the cursor's position, a row below num_rows; and the loop
\* run from from_start ends, after exactly num_rows advances, at
\* end_of_table with row_num = num_rows, having visited the rows 0, 1, ...,
\* num_rows - 1, each once and in order (the i-th visited is the row in
\* slot i, and the i-th inserted for the rows that were inserted).
C18_CursorTraversal ==
    [][ /\ cursor'.live =>
            /\ cursor'.end_of_table <=> (cursor'.row_num >= num_rows')
            /\ cursor.live =>
                  /\ cursor.end_of_table => cursor'.end_of_table
                  /\ cursor'.row_num =
                        IF last'.op = "advance" THEN cursor.row_num + 1
                        ELSE IF last'.op = "scan"
                             THEN cursor.row_num + last'.arg
                             ELSE cursor.row_num
        /\ cursor.live =>
            /\ num_rows' = num_rows
            /\ last'.op = "value" =>
                  /\ last'.res = "Ok"
                  /\ cursor'.live
                  /\ last'.arg = cursor.row_num
                  /\ last'.arg < num_rows
                  /\ last'.page = last'.arg \div 14
                  /\ last'.from = (last'.arg % 14) * 291
                  /\ out' = Append(out,
                               deserialize(RowContent(pages', file',
                                                      last'.arg)))
            /\ last'.op = "scan" =>
                  /\ last'.res = "Ok"
                  /\ cursor'.live /\ cursor'.end_of_table
                  /\ cursor'.row_num = num_rows
                  /\ last'.arg = num_rows
                  /\ Len(out') = num_rows
                  /\ \A k \in 1..Len(out') :
                        out'[k] = deserialize(RowContent(pages', file',
                                                         k - 1))
                  /\ LET m == IF num_rows < Len(hist) THEN num_rows
                                                      ELSE Len(hist)
                     IN  SubSeq(out', 1, m) = SubSeq(hist, 1, m) ]_vars

\* the decimal numeral t (an optional plus sign, then digits) denotes a number
\* up to 4294967295: after its leading zeros it has fewer than 10 digits,
\* or 10 digits that do not come after "4294967295"
IsU32Text(t) ==
    LET d == IF Len(t) > 0 /\ t[1] = 43 THEN Tail(t) ELSE t
        zeros == Cardinality({ k \in 1..Len(d) :
                                  \A j \in 1..k : d[j] = 48 })
        sig == SubSeq(d, zeros + 1, Len(d))
        top == << 52, 50, 57, 52, 57, 54, 55, 50, 57, 53 >>
    IN  /\ Len(d) > 0
        /\ \A k \in 1..Len(d) : d[k] \in 48..57
        /\ \/ Len(sig) < 10
           \/ /\ Len(sig) = 10
              /\ \/ sig = top
                 \/ \E k \in 1..10 :
                       /\ sig[k] < top[k]
                       /\ \A j \in 1..(k - 1) : sig[j] = top[j]

\* the line is one that is to be rejected: no statement word, or an unknown
\* one, or an insert with a field missing, an id that is negative or no
\* u32, a username over 32 bytes or an email over 255
Rejects(input) ==
    LET t == split_whitespace(input)
    IN  \/ Len(t) = 0
        \/ t[1] \notin {InsertWord, SelectWord}
        \/ /\ t[1] = InsertWord
           /\ \/ Len(t) < 4
              \/ t[2][1] = 45
              \/ ~IsU32Text(t[2])
              \/ Len(t[3]) > 32
              \/ Len(t[4]) > 255

\* the buffer is the bytes of the field t, then zeros up to size bytes
IsPadded(buf, t, size) ==
    /\ BLen(buf) = size
    /\ Slice(buf, 0, Len(t)) = Bytes(t)
    /\ Slice(buf, Len(t), size) = Zeros(size - Len(t))

\* C19: a line is rejected by prepare_statement exactly when it is one of
\* those to be rejected, and then no insert or select is executed: num_rows,
\* every page buffer, the file and the output stay as they were; an
\* accepted insert carries the input's username and email bytes
\* left-justified and zero-padded to 32 and 255 bytes, and the id's value.
C19_RejectedStatements ==
    [][ (stmt'.res # "None" /\ ~starts_with(stmt'.input, << 46 >>)) =>
          LET t == split_whitespace(stmt'.input)
          IN  /\ (stmt'.res # "Ok") <=> Rejects(stmt'.input)
              /\ stmt'.res # "Ok" =>
                    /\ last'.op \notin {"insert", "select"}
                    /\ num_rows' = num_rows
                    /\ pages' = pages
                    /\ file' = file
                    /\ hist' = hist
                    /\ out' = out
                    /\ phase' = phase
              /\ (stmt'.res = "Ok" /\ t[1] = InsertWord) =>
                    /\ last'.op = "insert"
                    /\ IsPadded(stmt'.row.username, t[3], 32)
                    /\ IsPadded(stmt'.row.email, t[4], 255)
                    /\ last'.res = "Ok" =>
                          RowContent(pages', file', num_rows)
                             = serialize(stmt'.row) ]_vars

C19_Witness ==
    /\ stmt.input = AsBytes("insert 1 ") \o Run(117, 33) \o AsBytes(" e")
    /\ stmt.res = "UsernameTooLong"
    /\ last = Op("rejected", 0, "UsernameTooLong")
    /\ num_rows = 1
    /\ hist[1].id = U32(0, 7)
    /\ hist[1].username = "626f62" \o Zeros(29)
    /\ hist[1].email = "6240782e696f" \o Zeros(249)
    /\ RowContent(pages, file, 0) = serialize(hist[1])

\* C20: in every state reached from the empty file by opens, inserts,
\* selects, drops and reopens, num_rows is at most 14 * 100, so every row
\* below num_rows is on a page below 100 and a select ends without a panic.
C20_MaxRowsInvariant ==
    /\ num_rows <= 14 * 100
    /\ \A i \in 0..(num_rows - 1) : slot_range(i).page < 100
    /\ last.op = "select" => last.res = "Ok"

\* C21: a session that opens a file the program wrote, runs only selects
\* and is torn down leaves the file as it found it, bytes and length, so
\* the next open sees the row count this open saw.  (After the first, the
\* sessions of these runs only select.)
C21_ReadOnlySession ==
    [][ (session > 1 /\ last'.op = "drop") =>
          /\ file' = file
          /\ FileLen(file') = file_length
          /\ TableRows(FileLen(file')) = num_rows ]_vars

\* C22: after a first session of A inserts into the empty file and a second
\* session of B more (A + B <= 1400), each torn down, the next open has
\* num_rows = A + B and a select prints the A records of the first session,
\* then the B of the second.
C22_AppendAcrossSessions ==
    (session = 3 /\ phase = "open" /\ Len(hist) <= 1400) =>
        /\ num_rows = Len(hist)
        /\ last.op = "select" => (last.res = "Ok" /\ out = hist)

====
